---- MODULE Spec2Model ----
(***************************************************************************)
(* The initial-mount engine of packages/inferno/src/DOM/mounting.ts.       *)
(*                                                                         *)
(* mount() is one synchronous, recursive call.  Its effect is computed by  *)
(* the recursive operators below over a machine state m, a record of       *)
(*   ivs       the heap of IV objects (an IV is named by its index),       *)
(*   kind, text, kids, par, owner                                          *)
(*             the DOM: per node its kind, its text, its child list, its   *)
(*             parent and the IV whose mounter created it (0: the node     *)
(*             existed before the call),                                   *)
(*   lifecycle the shared lifecycle queue,                                 *)
(*   log       the observable effects in the order the code performs them  *)
(*             (insertions, synchronous user callbacks, queue pushes),     *)
(*   thrown    an exception is propagating: every later statement of the   *)
(*             call is skipped,                                            *)
(*   ret       the value returned by the last call (0 is null).            *)
(* isSVG, context, props and className do not influence the IV tree, the   *)
(* DOM structure or the lifecycle queue and are left out.                  *)
(*                                                                         *)
(* SpecTwice has a caller mount one View Node twice; SpecPool is the       *)
(* recycling pools of packages/inferno/src/DOM/recycling.ts.               *)
(***************************************************************************)
EXTENDS Integers, Sequences, FiniteSets, TLC

\* ------------------------------------------------------------- bounds
\* The largest input: the number of values (VNodes, arrays, primitives,
\* nulls) the tree handed to mount is made of.
MaxNodes == 4
\* The largest number of pool() calls.
MaxPooled == 3

\* ------------------------------------------------------------- inputs
\* The values mount() can be handed: null/undefined/booleans ("null",
\* "bool"), a string or number ("text"), a plain object that is no VNode
\* ("object"), a VNode ("element", "class", "func", "portal") and an array.
\* kids holds the children of an element, the content of a portal, the
\* render output of a component (one entry each) or the entries of an array.
Leaf(k) ==
  [kind |-> k, key |-> 0, ref |-> "none", did |-> FALSE, target |-> 0,
   text |-> IF k = "text" THEN "a" ELSE "", kids |-> <<>>]

Element(ref, child) ==
  [kind |-> "element", key |-> 0, ref |-> ref, did |-> FALSE, target |-> 0,
   text |-> "", kids |-> <<child>>]

ClassComponent(did, out) ==
  [kind |-> "class", key |-> 0, ref |-> "none", did |-> did, target |-> 0,
   text |-> "", kids |-> <<out>>]

FunctionalComponent(ref, out) ==
  [kind |-> "func", key |-> 0, ref |-> ref, did |-> FALSE, target |-> 0,
   text |-> "", kids |-> <<out>>]

Portal(target, content) ==
  [kind |-> "portal", key |-> 0, ref |-> "none", did |-> FALSE,
   target |-> target, text |-> "", kids |-> <<content>>]

ArrayOf(entries) ==
  [kind |-> "array", key |-> 0, ref |-> "none", did |-> FALSE, target |-> 0,
   text |-> "", kids |-> entries]

\* The DOM nodes that exist before mount is called.
ParentDOM == 1
PortalContainer == 2
Anchor == 3
OtherContainer == 4
Containers == {PortalContainer, OtherContainer}

Leaves == {Leaf("null"), Leaf("bool"), Leaf("text"), Leaf("object")}
\* In place of a component's render output: the render step raises.
Raises == Leaf("raises")
\* The ref of an element: null, a function, a string (as any number or plain
\* object) or a boolean.
ElementRefs == {"none", "callback", "string", "bool"}
HookRefs == {"none", "hooks"}
VNodeKinds == {"element", "class", "func", "portal"}

\* An array entry is a value with or without a key (only VNodes carry one).
Entries(S) ==
  S \cup {[v EXCEPT !.key = 1] : v \in {w \in S : w.kind \in VNodeKinds}}

\* Sized(n): the values made of exactly n nodes; EntrySeqs(n, j): the
\* sequences of array entries made of n nodes in all whose first entry is
\* made of at least j nodes; UpTo(n): the values made of at most n nodes.
RECURSIVE Sized(_)
RECURSIVE EntrySeqs(_, _)
RECURSIVE UpTo(_)
Sized(n) ==
  IF n = 1 THEN Leaves \cup {ArrayOf(<<>>)}
  ELSE LET sub == Sized(n - 1)
           out == IF n = 2 THEN sub \cup {Raises} ELSE sub
       IN  {Element(r, c) : r \in ElementRefs, c \in sub}
           \cup {ClassComponent(h, c) : h \in BOOLEAN, c \in out}
           \cup {FunctionalComponent(r, c) : r \in HookRefs, c \in out}
           \cup {Portal(t, c) : t \in Containers, c \in sub}
           \cup {ArrayOf(e) : e \in EntrySeqs(n - 1, 1)}

EntrySeqs(n, j) ==
  IF n = 0 THEN {<<>>}
  ELSE IF j > n THEN {}
  ELSE {<<e>> \o r : e \in Entries(Sized(j)), r \in EntrySeqs(n - j, 1)}
       \cup EntrySeqs(n, j + 1)

UpTo(n) == IF n = 0 THEN {} ELSE Sized(n) \cup UpTo(n - 1)

Inputs == UpTo(MaxNodes)

\* ------------------------------------------------------------- shared
isInvalid(v) == v.kind \in {"null", "bool"}
isStringOrNumber(v) == v.kind = "text"
isVNode(v) == v.kind \in VNodeKinds
isArray(v) == v.kind = "array"

HasInvalidChildren == "HasInvalidChildren"
HasTextChildren == "HasTextChildren"
HasBasicChildren == "HasBasicChildren"
HasKeyedChildren == "HasKeyedChildren"
HasNonKeydChildren == "HasNonKeydChildren"
Regular == "Regular"
IsVirtualArray == "IsVirtualArray"

\* iv.c is null, one IV or an array of IVs.
NoChildren == [shape |-> "null", ivs |-> <<>>]
OneChild(c) == [shape |-> "single", ivs |-> <<c>>]
EmptyArray == [shape |-> "array", ivs |-> <<>>]

\* w is not a field of the code's IV: it lists, in order, the IVs whose
\* mounters have assigned d.
createIV(m, input, i) ==
  [m EXCEPT !.ivs = Append(@, [v |-> input, d |-> 0, c |-> NoChildren,
                               f |-> "None", t |-> Regular, b |-> 0,
                               k |-> i, w |-> <<>>]),
            !.ret = Len(m.ivs) + 1]

\* iv.d = dom, executed by the mounter of IV by.
setDom(m, by, iv, dom) ==
  [m EXCEPT !.ivs[iv].d = dom, !.ivs[iv].w = Append(@, by)]

Event(ev, cb, iv, node, parent) ==
  [ev |-> ev, cb |-> cb, iv |-> iv, node |-> node, parent |-> parent]

Callback(cb, iv, node) == [cb |-> cb, iv |-> iv, node |-> node]

Emit(m, e) == [m EXCEPT !.log = Append(@, e)]

throwError(m) == [m EXCEPT !.thrown = TRUE, !.ret = 0]

\* lifecycle.push(cb)
push(m, cb) ==
  Emit([m EXCEPT !.lifecycle = Append(@, cb)],
       Event("push", cb.cb, cb.iv, cb.node, 0))

\* ------------------------------------------------------------- DOM
\* document.createTextNode / documentCreateElement, called by the mounter
\* of iv.
createNode(m, kind, text, iv) ==
  [m EXCEPT !.kind = Append(@, kind), !.text = Append(@, text),
            !.kids = Append(@, <<>>), !.par = Append(@, 0),
            !.owner = Append(@, iv), !.ret = Len(m.kind) + 1]

setTextContent(m, dom, text) == [m EXCEPT !.text[dom] = text]

RECURSIVE IndexOf(_, _, _)
IndexOf(s, x, i) ==
  IF i > Len(s) THEN 0 ELSE IF s[i] = x THEN i ELSE IndexOf(s, x, i + 1)

Without(s, x) == SelectSeq(s, LAMBDA y : y # x)

InsertAt(s, i, x) == SubSeq(s, 1, i - 1) \o <<x>> \o SubSeq(s, i, Len(s))

\* parentDOM.appendChild(dom) when nextNode is null, otherwise
\* parentDOM.insertBefore(dom, nextNode); a node that already has a parent
\* is moved.  iv is the IV whose mounter makes the call.
insertOrAppend(m, iv, parentDOM, dom, nextNode) ==
  LET old == m.par[dom]
      m1 == IF old = 0 THEN m ELSE [m EXCEPT !.kids[old] = Without(@, dom)]
      sib == m1.kids[parentDOM]
      at == IF nextNode = 0 THEN Len(sib) + 1 ELSE IndexOf(sib, nextNode, 1)
  IN  Emit([m1 EXCEPT !.kids[parentDOM] = InsertAt(sib, at, dom),
                      !.par[dom] = parentDOM],
           Event("insert", "", iv, dom, parentDOM))

\* ------------------------------------------------------------- mounters
\* process.env.NODE_ENV === "production"
Production == FALSE
\* options.afterMount is configured
afterMount == FALSE

\* A text mounter that keeps one DOM node per mounted value and hands it
\* out again when the same value is mounted again.
mountText_cached(m, iv, text, parentDOM, nextNode, insertIntoDom) ==
  LET hit == {n \in 1..Len(m.kind) :
                /\ m.owner[n] # 0
                /\ m.kind[n] = "text"
                /\ m.ivs[m.owner[n]].v = m.ivs[iv].v}
      m1 == IF hit = {} THEN createNode(m, "text", text, iv)
            ELSE [m EXCEPT !.ret = CHOOSE n \in hit : TRUE]
      dom == m1.ret
      m2 == IF insertIntoDom
            THEN insertOrAppend(setDom(m1, iv, iv, dom), iv,
                                parentDOM, dom, nextNode)
            ELSE m1
  IN  [m2 EXCEPT !.ivs[iv].f = HasTextChildren, !.ret = dom]

mountText(m, iv, text, parentDOM, nextNode, insertIntoDom) ==
  LET m1 == createNode(m, "text", text, iv)
      dom == m1.ret
      m2 == IF insertIntoDom
            THEN insertOrAppend(setDom(m1, iv, iv, dom), iv,
                                parentDOM, dom, nextNode)
            ELSE m1
  IN  [m2 EXCEPT !.ivs[iv].f = HasTextChildren, !.ret = dom]

\* A ref attachment that invokes a callback ref at once.
mountRef_immediate(m, dom, value, iv) ==
  IF value = "callback" THEN Emit(m, Event("invoke", "ref", iv, dom, 0))
  ELSE IF value \in {"none", "undefined", "bool"} THEN m
  ELSE throwError(m)

\* A ref attachment that ignores whatever is not a function.
mountRef_lenient(m, dom, value, iv) ==
  IF value = "callback" THEN push(m, Callback("ref", iv, dom)) ELSE m

\* iv names the element the ref belongs to (the closure's identity).
mountRef(m, dom, value, iv) ==
  IF value = "callback" THEN push(m, Callback("ref", iv, dom))
  ELSE IF value \in {"none", "undefined", "bool"} THEN m
  ELSE throwError(m)

\* instance is named by the IV of its component.
mountClassComponentCallbacks(m, vNode, ref, instance) ==
  LET m1 == IF ref \in {"none", "undefined", "bool"} THEN m
            ELSE IF ref = "callback"
                 THEN Emit(m, Event("call", "classRef", instance, 0, 0))
                 ELSE throwError(m)
      hasDidMount == vNode.did
  IN  IF m1.thrown THEN m1
      ELSE IF hasDidMount \/ afterMount
           THEN push(m1, Callback("componentDidMount", instance, 0))
           ELSE m1

\* iv names the component the hooks belong to (the closure's identity).
mountFunctionalComponentCallbacks(m, ref, dom, iv) ==
  IF ref \in {"none", "undefined", "bool"} THEN m
  ELSE LET m1 == IF ref \in {"hooks", "willMount"}
                 THEN Emit(m, Event("call", "onComponentWillMount", iv, 0, 0))
                 ELSE m
       IN  IF ref \in {"hooks", "didMount"}
           THEN push(m1, Callback("onComponentDidMount", iv, dom))
           ELSE m1

\* Each mounter is a chain of steps; a step takes the machine state its
\* predecessor left and does nothing when an exception is propagating.
RECURSIVE mount(_, _, _, _, _, _)
RECURSIVE mountVNode(_, _, _, _, _, _)
RECURSIVE mountElement(_, _, _, _, _, _)
RECURSIVE mountArrayChildren(_, _, _, _, _, _, _)
RECURSIVE mountArrayLoop(_, _, _, _, _, _, _, _)
RECURSIVE mountComponent(_, _, _, _, _, _)
RECURSIVE mountPortal(_, _, _, _, _, _)

\* Lines 74-77: mount returns null once the array mounter has returned.
returnNull(r) == IF r.thrown THEN r ELSE [r EXCEPT !.ret = 0]

\* A dispatcher without the development validation: whatever is neither a
\* primitive nor a VNode goes to the array mounter.
mount_unvalidated(m, iv, input, parentDOM, nextNode, insertIntoDOM) ==
  IF isStringOrNumber(input)
  THEN mountText(m, iv, input.text, parentDOM, nextNode, insertIntoDOM)
  ELSE IF isVNode(input)
  THEN mountVNode(m, iv, input, parentDOM, nextNode, insertIntoDOM)
  ELSE returnNull(mountArrayChildren(m, iv, input, parentDOM, nextNode,
                                     FALSE, TRUE))

mount(m, iv, input, parentDOM, nextNode, insertIntoDOM) ==
  IF isStringOrNumber(input)
  THEN mountText(m, iv, input.text, parentDOM, nextNode, insertIntoDOM)
  ELSE IF isVNode(input)
  THEN mountVNode(m, iv, input, parentDOM, nextNode, insertIntoDOM)
  ELSE IF ~Production /\ ~isArray(input)
  THEN throwError(m)
  ELSE returnNull(mountArrayChildren(m, iv, input, parentDOM, nextNode,
                                     FALSE, TRUE))

mountVNode(m, iv, input, parentDOM, nextNode, insertIntoDOM) ==
  IF input.kind = "element"
  THEN mountElement(m, iv, input, parentDOM, nextNode, insertIntoDOM)
  ELSE IF input.kind \in {"class", "func"}
  THEN mountComponent(m, iv, input, parentDOM, nextNode, insertIntoDOM)
  ELSE mountPortal(m, iv, input, parentDOM, nextNode, insertIntoDOM)

\* A placeholder step that returns null to the caller of the portal mounter.
mountPortalPlaceholder_returnsNull(c, iv, parentDOM, nextNode, insertIntoDom) ==
  IF c.thrown THEN c
  ELSE returnNull(mountText(c, iv, "", parentDOM, nextNode, insertIntoDom))

\* Line 141: the placeholder of a portal whose content is mounted.
mountPortalPlaceholder(c, iv, parentDOM, nextNode, insertIntoDom) ==
  IF c.thrown THEN c
  ELSE mountText(c, iv, "", parentDOM, nextNode, insertIntoDom)

\* A portal mounter that mounts the content into the logical parent.
mountPortal_intoParent(m, iv, vNode, parentDOM, nextNode, insertIntoDom) ==
  LET a == createIV(Emit(m, Event("mountPortal", "", iv, nextNode,
                                   parentDOM)),
                      vNode.kids[1], 0)
      childIV == a.ret
      b == [a EXCEPT !.ivs[iv].c = OneChild(childIV)]
  IN  mountPortalPlaceholder(
        mount(b, childIV, vNode.kids[1], parentDOM, 0, TRUE),
        iv, parentDOM, nextNode, insertIntoDom)

\* The log records the call with its logical parent and anchor.
mountPortal(m, iv, vNode, parentDOM, nextNode, insertIntoDom) ==
  LET a == createIV(Emit(m, Event("mountPortal", "", iv, nextNode,
                                   parentDOM)),
                      vNode.kids[1], 0)
      childIV == a.ret
      b == [a EXCEPT !.ivs[iv].c = OneChild(childIV)]
  IN  mountPortalPlaceholder(
        mount(b, childIV, vNode.kids[1], vNode.target, 0, TRUE),
        iv, parentDOM, nextNode, insertIntoDom)

\* A children step that handles invalid children like a primitive: it
\* writes the element's text content and flags HasTextChildren.
mountElementChildren_invalidAsText(m, iv, children, dom) ==
  IF isInvalid(children) \/ isStringOrNumber(children)
  THEN [setTextContent(m, dom, children.text)
          EXCEPT !.ivs[iv].f = HasTextChildren]
  ELSE IF isVNode(children)
  THEN LET a == createIV(m, children, 0)
           childIV == a.ret
           b == [a EXCEPT !.ivs[iv].c = OneChild(childIV),
                          !.ivs[iv].f = HasBasicChildren]
       IN  mountVNode(b, childIV, children, dom, 0, TRUE)
  ELSE mountArrayChildren(m, iv, children, dom, 0, FALSE, FALSE)

\* A children step that mounts a primitive child as a text node of its own,
\* with a child IV.
mountElementChildren_textAsNode(m, iv, children, dom) ==
  IF isInvalid(children)
  THEN [m EXCEPT !.ivs[iv].f = HasInvalidChildren]
  ELSE IF isStringOrNumber(children) \/ isVNode(children)
  THEN LET a == createIV(m, children, 0)
           childIV == a.ret
           b == [a EXCEPT !.ivs[iv].c = OneChild(childIV),
                          !.ivs[iv].f = HasBasicChildren]
       IN  mount(b, childIV, children, dom, 0, TRUE)
  ELSE mountArrayChildren(m, iv, children, dom, 0, FALSE, FALSE)

\* Lines 163-184: the element's children are classified and mounted into
\* the new element dom.
mountElementChildren(m, iv, children, dom) ==
  IF isInvalid(children)
  THEN [m EXCEPT !.ivs[iv].f = HasInvalidChildren]
  ELSE IF isStringOrNumber(children)
  THEN [setTextContent(m, dom, children.text)
          EXCEPT !.ivs[iv].f = HasTextChildren]
  ELSE IF isVNode(children)
  THEN LET a == createIV(m, children, 0)
           childIV == a.ret
           b == [a EXCEPT !.ivs[iv].c = OneChild(childIV),
                          !.ivs[iv].f = HasBasicChildren]
       IN  mountVNode(b, childIV, children, dom, 0, TRUE)
  ELSE mountArrayChildren(m, iv, children, dom, 0, FALSE, FALSE)

\* Lines 209-211: the ref is attached when it is not null.
mountElementRef(m, iv, ref, dom) ==
  IF m.thrown \/ ref = "none" THEN m ELSE mountRef(m, dom, ref, iv)

\* Lines 212-215: the element is recorded on the IV and inserted.
insertElement(m, iv, parentDOM, dom, nextNode, insertIntoDom) ==
  IF m.thrown \/ ~insertIntoDom THEN m
  ELSE insertOrAppend(setDom(m, iv, iv, dom), iv, parentDOM, dom,
                      nextNode)

\* Line 216: return dom
returnDom(m, dom) == IF m.thrown THEN m ELSE [m EXCEPT !.ret = dom]

\* An element mounter that attaches the ref after it has inserted the
\* element.
mountElement_refAfterInsert(m, iv, vNode, parentDOM, nextNode, insertIntoDom) ==
  LET m1 == createNode(m, "element", "", iv)
      dom == m1.ret
  IN  returnDom(
        mountElementRef(
          insertElement(
            mountElementChildren(m1, iv, vNode.kids[1], dom),
            iv, parentDOM, dom, nextNode, insertIntoDom),
          iv, vNode.ref, dom),
        dom)

mountElement(m, iv, vNode, parentDOM, nextNode, insertIntoDom) ==
  LET m1 == createNode(m, "element", "", iv)
      dom == m1.ret
  IN  returnDom(
        insertElement(
          mountElementRef(
            mountElementChildren(m1, iv, vNode.kids[1], dom),
            iv, vNode.ref, dom),
          iv, parentDOM, dom, nextNode, insertIntoDom),
        dom)

\* An array loop that decides the keyed flag again at every valid entry.
mountArrayLoop_everyEntry(m, iv, kids, i, firstValid, parentDOM, nextNode, forceKeyed) ==
  IF m.thrown \/ i > Len(kids) THEN m
  ELSE LET child == kids[i] IN
    IF isInvalid(child)
    THEN mountArrayLoop(m, iv, kids, i + 1, firstValid, parentDOM, nextNode,
                        forceKeyed)
    ELSE LET a == [m EXCEPT !.ivs[iv].c = IF firstValid THEN EmptyArray ELSE @,
                            !.ivs[iv].f =
                              IF forceKeyed
                                 \/ (isVNode(child) /\ child.key # 0)
                              THEN HasKeyedChildren
                              ELSE HasNonKeydChildren]
             b == createIV(a, child, i - 1)
             childIV == b.ret
             c == [b EXCEPT !.ivs[iv].c.ivs = Append(@, childIV)]
         IN  mountArrayLoop(
               mount(c, childIV, child, parentDOM, nextNode, TRUE),
               iv, kids, i + 1, FALSE, parentDOM, nextNode, forceKeyed)

\* An array loop that skips null entries only, not booleans.
mountArrayLoop_skipNullOnly(m, iv, kids, i, firstValid, parentDOM, nextNode, forceKeyed) ==
  IF m.thrown \/ i > Len(kids) THEN m
  ELSE LET child == kids[i] IN
    IF child.kind = "null"
    THEN mountArrayLoop(m, iv, kids, i + 1, firstValid, parentDOM, nextNode,
                        forceKeyed)
    ELSE LET a == IF firstValid
                  THEN [m EXCEPT !.ivs[iv].c = EmptyArray,
                                 !.ivs[iv].f =
                                   IF forceKeyed
                                      \/ (isVNode(child) /\ child.key # 0)
                                   THEN HasKeyedChildren
                                   ELSE HasNonKeydChildren]
                  ELSE m
             b == createIV(a, child, i - 1)
             childIV == b.ret
             c == [b EXCEPT !.ivs[iv].c.ivs = Append(@, childIV)]
         IN  mountArrayLoop(
               mount(c, childIV, child, parentDOM, nextNode, TRUE),
               iv, kids, i + 1, FALSE, parentDOM, nextNode, forceKeyed)

\* Lines 235-249: the for loop from entry i on (1-based; the code's i is
\* i - 1).
mountArrayLoop(m, iv, kids, i, firstValid, parentDOM, nextNode, forceKeyed) ==
  IF m.thrown \/ i > Len(kids) THEN m
  ELSE LET child == kids[i] IN
    IF isInvalid(child)
    THEN mountArrayLoop(m, iv, kids, i + 1, firstValid, parentDOM, nextNode,
                        forceKeyed)
    ELSE LET a == IF firstValid
                  THEN [m EXCEPT !.ivs[iv].c = EmptyArray,
                                 !.ivs[iv].f =
                                   IF forceKeyed
                                      \/ (isVNode(child) /\ child.key # 0)
                                   THEN HasKeyedChildren
                                   ELSE HasNonKeydChildren]
                  ELSE m
             b == createIV(a, child, i - 1)
             childIV == b.ret
             c == [b EXCEPT !.ivs[iv].c.ivs = Append(@, childIV)]
         IN  mountArrayLoop(
               mount(c, childIV, child, parentDOM, nextNode, TRUE),
               iv, kids, i + 1, FALSE, parentDOM, nextNode, forceKeyed)

\* A last step of the array mounter that also assigns the dom of the first
\* child IV of a virtual array.
setArrayType_writesChild(m, iv, isVirtual) ==
  IF m.thrown THEN m
  ELSE IF isVirtual
  THEN IF m.ivs[iv].f \in {HasKeyedChildren, HasNonKeydChildren}
       THEN setDom(setDom([m EXCEPT !.ivs[iv].t = IsVirtualArray], iv, iv,
                          m.ivs[m.ivs[iv].c.ivs[1]].d),
                   iv, m.ivs[iv].c.ivs[1], m.ivs[m.ivs[iv].c.ivs[1]].d)
       ELSE setDom([m EXCEPT !.ivs[iv].t = IsVirtualArray], iv, iv, 0)
  ELSE [m EXCEPT !.ivs[iv].t = Regular]

\* Lines 251-261: the IV's type, and the dom of a virtual array.
setArrayType(m, iv, isVirtual) ==
  IF m.thrown THEN m
  ELSE IF isVirtual
  THEN setDom([m EXCEPT !.ivs[iv].t = IsVirtualArray], iv, iv,
              IF m.ivs[iv].f \in {HasKeyedChildren, HasNonKeydChildren}
              THEN m.ivs[m.ivs[iv].c.ivs[1]].d
              ELSE 0)
  ELSE [m EXCEPT !.ivs[iv].t = Regular]

mountArrayChildren(m, iv, children, parentDOM, nextNode, forceKeyed, isVirtual) ==
  setArrayType(
    mountArrayLoop([m EXCEPT !.ivs[iv].c = NoChildren,
                             !.ivs[iv].f = HasInvalidChildren],
                   iv, children.kids, 1, TRUE, parentDOM, nextNode,
                   forceKeyed),
    iv, isVirtual)

\* Line 307: childIV.d = dom = mount(...)
setChildDom(c, childIV) ==
  IF c.thrown THEN c ELSE setDom(c, c.ivs[childIV].b, childIV, c.ret)

\* A render-output step that has the output inserted by its own mounter.
mountRenderOutput_inserting(m, iv, renderOutput, parentDOM, nextNode) ==
  IF isInvalid(renderOutput)
  THEN [m EXCEPT !.ivs[iv].f = HasInvalidChildren, !.ret = 0]
  ELSE LET a == createIV([m EXCEPT !.ivs[iv].f = HasBasicChildren],
                         renderOutput, 0)
           childIV == a.ret
           b == [a EXCEPT !.ivs[iv].c = OneChild(childIV),
                          !.ivs[childIV].b = iv]
       IN  setChildDom(
             mount(b, childIV, renderOutput, parentDOM, nextNode, TRUE),
             childIV)

\* A render-output step that leaves the back-reference of the child IV
\* unset.
mountRenderOutput_noBackReference(m, iv, renderOutput, parentDOM, nextNode) ==
  IF isInvalid(renderOutput)
  THEN [m EXCEPT !.ivs[iv].f = HasInvalidChildren, !.ret = 0]
  ELSE LET a == createIV([m EXCEPT !.ivs[iv].f = HasBasicChildren],
                         renderOutput, 0)
           childIV == a.ret
           b == [a EXCEPT !.ivs[iv].c = OneChild(childIV)]
       IN  setChildDom(
             mount(b, childIV, renderOutput, parentDOM, nextNode, FALSE),
             childIV)

\* Lines 301-317: the render output is mounted without insertion; the
\* result's ret is dom, the DOM node the component stands for (0: none).
mountRenderOutput(m, iv, renderOutput, parentDOM, nextNode) ==
  IF isInvalid(renderOutput)
  THEN [m EXCEPT !.ivs[iv].f = HasInvalidChildren, !.ret = 0]
  ELSE LET a == createIV([m EXCEPT !.ivs[iv].f = HasBasicChildren],
                         renderOutput, 0)
           childIV == a.ret
           b == [a EXCEPT !.ivs[iv].c = OneChild(childIV),
                          !.ivs[childIV].b = iv]
       IN  setChildDom(
             mount(b, childIV, renderOutput, parentDOM, nextNode, FALSE),
             childIV)

\* Lines 319-327: the callbacks of a component whose dom is m.ret.
mountComponentCallbacks(m, iv, vNode) ==
  IF m.thrown THEN m
  ELSE IF vNode.kind = "class"
  THEN mountClassComponentCallbacks(m, vNode, vNode.ref, iv)
  ELSE mountFunctionalComponentCallbacks(m, vNode.ref, m.ret, iv)

\* An insertion step that appends the component's dom to the parent,
\* whatever the anchor.
insertComponent_append(m, iv, parentDOM, nextNode, insertIntoDom) ==
  IF m.thrown \/ ~(insertIntoDom /\ m.ret # 0) THEN m
  ELSE insertOrAppend(setDom(m, iv, iv, m.ret), iv, parentDOM, m.ret, 0)

\* Lines 329-334: dom (m.ret) is recorded on the IV, inserted and returned.
insertComponent(m, iv, parentDOM, nextNode, insertIntoDom) ==
  IF m.thrown \/ ~(insertIntoDom /\ m.ret # 0) THEN m
  ELSE insertOrAppend(setDom(m, iv, iv, m.ret), iv, parentDOM, m.ret,
                      nextNode)

\* A component mounter that schedules the lifecycle callbacks before it
\* mounts the render output.
mountComponent_callbacksFirst(m, iv, vNode, parentDOM, nextNode, insertIntoDom) ==
  insertComponent(
    mountRenderOutput(
      mountComponentCallbacks([m EXCEPT !.ret = 0], iv, vNode),
      iv, vNode.kids[1], parentDOM, nextNode),
    iv, parentDOM, nextNode, insertIntoDom)

\* A component mounter that returns at once when the render output is
\* invalid.
mountComponent_skipInvalid(m, iv, vNode, parentDOM, nextNode, insertIntoDom) ==
  IF isInvalid(vNode.kids[1])
  THEN mountRenderOutput(m, iv, vNode.kids[1], parentDOM, nextNode)
  ELSE insertComponent(
         mountComponentCallbacks(
           mountRenderOutput(m, iv, vNode.kids[1], parentDOM, nextNode),
           iv, vNode),
         iv, parentDOM, nextNode, insertIntoDom)

\* A component mounter that catches what the render step raises and goes on
\* as if the component had rendered null.
mountComponent_catchingRender(m, iv, vNode, parentDOM, nextNode, insertIntoDom) ==
  insertComponent(
    mountComponentCallbacks(
      mountRenderOutput(m, iv,
                        IF vNode.kids[1] = Raises THEN Leaf("null")
                        ELSE vNode.kids[1],
                        parentDOM, nextNode),
      iv, vNode),
    iv, parentDOM, nextNode, insertIntoDom)

\* Lines 283-299: the render step returns vNode.kids[1] or raises;
\* createClassComponentInstance, the render call and options.afterRender
\* are the component's own code.
mountComponent(m, iv, vNode, parentDOM, nextNode, insertIntoDom) ==
  IF vNode.kids[1] = Raises THEN throwError(m)
  ELSE insertComponent(
         mountComponentCallbacks(
           mountRenderOutput(m, iv, vNode.kids[1], parentDOM, nextNode),
           iv, vNode),
         iv, parentDOM, nextNode, insertIntoDom)

\* ------------------------------------------------------------- recycling
\* packages/inferno/src/DOM/recycling.ts.  A Map is a function whose domain
\* is the set of the keys it has; a VNode handed to pool() is a record of
\* its type, its key ("null": null; "undefined" and "k" are not null) and
\* its identity n.
PoolTypes == {"div", "Component"}
PoolKeys == {"null", "undefined", "k"}
PoolNodes == [type : PoolTypes, key : PoolKeys, n : 1..2]

\* new Map()
EmptyMap == << >>
\* new Pools()
Pools == [nonKeyed |-> <<>>, keyed |-> EmptyMap]

\* map.set(key, value)
MapSet(map, key, value) ==
  [k \in DOMAIN map \cup {key} |-> IF k = key THEN value ELSE map[k]]

\* The commented-out lookup: the last node of the pool of the VNode's type
\* and key is taken out and returned (n: its identity; 0: none).
recycle(vNode, tagPools) ==
  IF vNode.type \notin DOMAIN tagPools THEN [pools |-> tagPools, ret |-> 0]
  ELSE LET p == tagPools[vNode.type]
       IN  IF vNode.key = "null"
           THEN IF p.nonKeyed = <<>> THEN [pools |-> tagPools, ret |-> 0]
                ELSE [pools |-> [tagPools EXCEPT ![vNode.type].nonKeyed =
                                   SubSeq(@, 1, Len(@) - 1)],
                      ret |-> p.nonKeyed[Len(p.nonKeyed)].n]
           ELSE IF vNode.key \notin DOMAIN p.keyed \/ p.keyed[vNode.key] = <<>>
                THEN [pools |-> tagPools, ret |-> 0]
                ELSE [pools |-> [tagPools EXCEPT ![vNode.type].keyed[vNode.key] =
                                   SubSeq(@, 1, Len(@) - 1)],
                      ret |-> p.keyed[vNode.key][Len(p.keyed[vNode.key])].n]

\* An element recycler that takes a node out of the pools.
recycleElement_taking(vNode, tagPools) == recycle(vNode, tagPools)

\* tagPools is elementPools, which the function leaves alone; ret is what it
\* returns.
recycleElement(vNode, tagPools) == [pools |-> tagPools, ret |-> 0]

\* tagPools is componentPools.
recycleComponent(vNode, tagPools) == [pools |-> tagPools, ret |-> 0]

\* A pool() that keeps one node per type and key.
pool_replacing(vNode, tagPools) ==
  LET tag == vNode.type
      key == vNode.key
      withTag == IF tag \notin DOMAIN tagPools
                 THEN MapSet(tagPools, tag, Pools)
                 ELSE tagPools
  IN  IF key = "null"
      THEN [withTag EXCEPT ![tag].nonKeyed = <<vNode>>]
      ELSE [withTag EXCEPT ![tag].keyed = MapSet(@, key, <<vNode>>)]

pool(vNode, tagPools) ==
  LET tag == vNode.type
      key == vNode.key
      withTag == IF tag \notin DOMAIN tagPools
                 THEN MapSet(tagPools, tag, Pools)
                 ELSE tagPools
      keyed == withTag[tag].keyed
      withKey == IF key \notin DOMAIN keyed THEN MapSet(keyed, key, <<>>)
                 ELSE keyed
  IN  IF key = "null"
      THEN [withTag EXCEPT ![tag].nonKeyed = Append(@, vNode)]
      ELSE [withTag EXCEPT ![tag].keyed =
              [withKey EXCEPT ![key] = Append(@, vNode)]]

\* ------------------------------------------------------------- state
VARIABLES
  input,      \* the value handed to the top-level mount call
  nextNode,   \* its insertion anchor: 0 (append) or Anchor
  pc,         \* "ready", "mounted" (mount returned), "thrown" (it threw)
  ivs, kind, text, kids, par, owner, lifecycle, log, thrown, ret,
  pre,        \* the lifecycle queue as it was when mount was called
  flushed,    \* how many queue entries the caller has invoked
  elementPools, componentPools,
  pooled      \* the calls of pool() so far: the node and the map handed over

poolVars == <<elementPools, componentPools, pooled>>

vars == <<input, nextNode, pc, ivs, kind, text, kids, par, owner, lifecycle,
          log, thrown, ret, pre, flushed, poolVars>>

RootIV == 1

\* Who calls mount: a first render (a fresh queue, appending to the parent)
\* or an update that mounts a new subtree (a queue that already holds a
\* callback, inserting before an existing sibling).
Callers ==
  {[nextNode |-> 0, lifecycle |-> <<>>],
   [nextNode |-> Anchor, lifecycle |-> <<Callback("pre", 0, 0)>>]}

Machine ==
  [ivs |-> ivs, kind |-> kind, text |-> text, kids |-> kids, par |-> par,
   owner |-> owner, lifecycle |-> lifecycle, log |-> log, thrown |-> thrown, ret |-> ret]

\* The caller has created the root IV and holds a parent element that has
\* one child (Anchor), two portal containers and a lifecycle queue.
Init ==
  /\ input \in Inputs
  /\ \E caller \in Callers :
       /\ nextNode = caller.nextNode
       /\ lifecycle = caller.lifecycle
  /\ pc = "ready"
  /\ ivs = createIV([ivs |-> <<>>, ret |-> 0], input, 0).ivs
  /\ kind = <<"element", "element", "element", "element">>
  /\ text = <<"", "", "", "">>
  /\ kids = <<(<<Anchor>>), <<>>, <<>>, <<>>>>
  /\ par = <<0, 0, ParentDOM, 0>>
  /\ owner = <<0, 0, 0, 0>>
  /\ pre = lifecycle
  /\ log = <<>>
  /\ thrown = FALSE
  /\ ret = 0
  /\ flushed = 0
  /\ elementPools = EmptyMap
  /\ componentPools = EmptyMap
  /\ pooled = <<>>

\* The top-level call mount(iv, input, parentDOM, nextNode, lifecycle,
\* context, isSVG, true).
Mount ==
  /\ pc = "ready"
  /\ LET r == mount(Machine, RootIV, input, ParentDOM, nextNode, TRUE)
     IN  /\ ivs' = r.ivs
         /\ kind' = r.kind
         /\ text' = r.text
         /\ kids' = r.kids
         /\ par' = r.par
         /\ owner' = r.owner
         /\ lifecycle' = r.lifecycle
         /\ log' = r.log
         /\ thrown' = r.thrown
         /\ ret' = r.ret
         /\ pc' = IF r.thrown THEN "thrown" ELSE "mounted"
  /\ UNCHANGED <<input, nextNode, pre, flushed, poolVars>>

\* The caller of mount invokes the queued callbacks in collection order once
\* mount has returned.
Flush ==
  /\ pc = "mounted"
  /\ flushed < Len(lifecycle)
  /\ LET cb == lifecycle[flushed + 1]
     IN  log' = Append(log, Event("invoke", cb.cb, cb.iv, cb.node, 0))
  /\ flushed' = flushed + 1
  /\ UNCHANGED <<input, nextNode, pc, ivs, kind, text, kids, par, owner,
                 lifecycle, thrown, ret, pre, poolVars>>

Next == Mount \/ Flush

Spec == Init /\ [][Next]_vars

\* The same View Node mounted twice: a caller that mounts input into one of
\* two parents with the root IV, and then into the other parent with a
\* fresh IV.
Becomes(r, next) ==
  /\ ivs' = r.ivs
  /\ kind' = r.kind
  /\ text' = r.text
  /\ kids' = r.kids
  /\ par' = r.par
  /\ owner' = r.owner
  /\ lifecycle' = r.lifecycle
  /\ log' = r.log
  /\ thrown' = r.thrown
  /\ ret' = r.ret
  /\ pc' = IF r.thrown THEN "thrown" ELSE next
  /\ UNCHANGED <<input, nextNode, pre, flushed, poolVars>>

\* mount(iv, input, otherContainer, null, lifecycle, context, isSVG, true)
MountElsewhere ==
  /\ pc = "ready"
  /\ Becomes(mount(Machine, RootIV, input, OtherContainer, 0, TRUE),
             "mountedElsewhere")

\* The parent of the first call and the parent of the second one.
FirstParent == IF pc = "mountedElsewhere" THEN OtherContainer ELSE ParentDOM
SecondParent == IF pc = "mountedElsewhere" THEN ParentDOM ELSE OtherContainer

\* createIV(input, 0) and the second call of mount.
MountAgain ==
  /\ pc \in {"mounted", "mountedElsewhere"}
  /\ LET a == createIV(Machine, input, 0)
     IN  Becomes(mount(a, a.ret, input, SecondParent,
                       IF SecondParent = ParentDOM THEN nextNode ELSE 0,
                       TRUE),
                 IF pc = "mounted" THEN "twice" ELSE "twiceElsewhere")

NextTwice == Mount \/ MountElsewhere \/ MountAgain

SpecTwice == Init /\ [][NextTwice]_vars

\* The pools while the mount engine is idle: the mount path calls none of
\* pool, recycleElement and recycleComponent.
InitPool ==
  /\ input = ArrayOf(<<>>)
  /\ nextNode = 0
  /\ lifecycle = <<>>
  /\ pc = "ready"
  /\ ivs = createIV([ivs |-> <<>>, ret |-> 0], input, 0).ivs
  /\ kind = <<"element", "element", "element", "element">>
  /\ text = <<"", "", "", "">>
  /\ kids = <<(<<Anchor>>), <<>>, <<>>, <<>>>>
  /\ par = <<0, 0, ParentDOM, 0>>
  /\ owner = <<0, 0, 0, 0>>
  /\ pre = lifecycle
  /\ log = <<>>
  /\ thrown = FALSE
  /\ ret = 0
  /\ flushed = 0
  /\ elementPools = EmptyMap
  /\ componentPools = EmptyMap
  /\ pooled = <<>>

mountVars ==
  <<input, nextNode, pc, ivs, kind, text, kids, par, owner, lifecycle, log,
    thrown, pre, flushed>>

\* pool(vNode, elementPools)
PoolElement ==
  /\ Len(pooled) < MaxPooled
  /\ \E vNode \in PoolNodes :
       /\ elementPools' = pool(vNode, elementPools)
       /\ pooled' = Append(pooled, [vNode |-> vNode, into |-> "elementPools"])
  /\ UNCHANGED <<mountVars, ret, componentPools>>

\* pool(vNode, componentPools)
PoolComponent ==
  /\ Len(pooled) < MaxPooled
  /\ \E vNode \in PoolNodes :
       /\ componentPools' = pool(vNode, componentPools)
       /\ pooled' = Append(pooled, [vNode |-> vNode, into |-> "componentPools"])
  /\ UNCHANGED <<mountVars, ret, elementPools>>

\* recycleElement(vNode, lifecycle, context, isSVG)
RecycleElement ==
  /\ \E vNode \in PoolNodes :
       LET r == recycleElement(vNode, elementPools)
       IN  elementPools' = r.pools /\ ret' = r.ret
  /\ UNCHANGED <<mountVars, componentPools, pooled>>

\* recycleComponent(vNode, lifecycle, context, isSVG)
RecycleComponent ==
  /\ \E vNode \in PoolNodes :
       LET r == recycleComponent(vNode, componentPools)
       IN  componentPools' = r.pools /\ ret' = r.ret
  /\ UNCHANGED <<mountVars, elementPools, pooled>>

NextPool == PoolElement \/ PoolComponent \/ RecycleElement \/ RecycleComponent

SpecPool == InitPool /\ [][NextPool]_vars

\* ------------------------------------------------------------- analysis
IVs == 1..Len(ivs)
Nodes == 1..Len(kind)
Range(q) == {q[i] : i \in 1..Len(q)}

ChildIVs(x) == Range(ivs[x].c.ivs)

\* The IV whose children field holds x (0: none).
ParentIV(x) ==
  IF \E y \in IVs : x \in ChildIVs(y)
  THEN CHOOSE y \in IVs : x \in ChildIVs(y)
  ELSE 0

\* x is in the IV subtree below y.
RECURSIVE IsDescendant(_, _)
IsDescendant(x, y) ==
  LET p == ParentIV(x) IN p # 0 /\ (p = y \/ IsDescendant(p, y))

\* The nearest portal IV above x (0: none).
RECURSIVE EnclosingPortal(_)
EnclosingPortal(x) ==
  LET p == ParentIV(x)
  IN  IF p = 0 THEN 0
      ELSE IF ivs[p].v.kind = "portal" THEN p ELSE EnclosingPortal(p)

\* The DOM nodes of the content of portal y: created below y, and not for the
\* content of a portal nested in y.
ContentNodes(y) ==
  {n \in Nodes : owner[n] # 0 /\ EnclosingPortal(owner[n]) = y}

\* The nodes that are in the document before mount is called.
DocumentNodes == {n \in Nodes : owner[n] = 0}

\* The IVs the array mounter has worked on: those of an array and those of
\* an element whose children are an array (or an object that is no VNode).
IsArrayIV(x) ==
  \/ ivs[x].v.kind = "array"
  \/ ivs[x].v.kind = "element" /\ ivs[x].v.kids[1].kind \in {"array", "object"}

EntriesOf(x) ==
  IF ivs[x].v.kind = "array" THEN ivs[x].v.kids ELSE ivs[x].v.kids[1].kids

\* null, undefined, true, false
Sentinel(v) == v.kind \in {"null", "bool"}

\* The indices of the valid entries of e, in order.
ValidIndices(e) ==
  LET idx == [i \in 1..Len(e) |-> i]
  IN  SelectSeq(idx, LAMBDA i : ~Sentinel(e[i]))

KeyedVNode(v) == v.kind \in VNodeKinds /\ v.key # 0

\* The callbacks of the push events of l, in order.
Pushed(l) ==
  LET pushes == SelectSeq(l, LAMBDA e : e.ev = "push")
  IN  [i \in 1..Len(pushes) |->
         Callback(pushes[i].cb, pushes[i].iv, pushes[i].node)]

\* The elements mounted from a VNode with a callback ref.
RefElements ==
  {x \in IVs : ivs[x].v.kind = "element" /\ ivs[x].v.ref = "callback"}

\* The positions of the log where the ref callback of element x is pushed,
\* and where it runs.
RefPushes(x) ==
  {p \in 1..Len(log) :
     log[p].ev = "push" /\ log[p].cb = "ref" /\ log[p].iv = x}
RefRuns(x) ==
  {p \in 1..Len(log) :
     log[p].ev \in {"call", "invoke"} /\ log[p].cb = "ref" /\ log[p].iv = x}

\* Position p of the log lies after everything the mounters below x did and
\* before any insertion of node n.
AfterChildrenBeforeInsert(p, x, n) ==
  /\ \A q \in 1..Len(log) :
       (log[q].ev \in {"insert", "push", "call"}
        /\ IsDescendant(log[q].iv, x)) => q < p
  /\ \A q \in 1..Len(log) :
       (log[q].ev = "insert" /\ log[q].node = n) => p < q

\* The element node created for IV x.
NodesOf(x) == {n \in Nodes : owner[n] = x}

Mounted == pc = "mounted"
Flushed == pc = "mounted" /\ flushed = Len(lifecycle)

DidMountCbs == {"componentDidMount", "onComponentDidMount"}
IsDidMount(e) == e.cb \in DidMountCbs
Invoked(e) == e.ev = "invoke"

\* ------------------------------------------------------------- claims

\* C1: when the queue is invoked in collection order, the didMount callback
\* of every component nested (at any depth) in the rendered subtree of
\* another component has been invoked by the time the enclosing component's
\* didMount callback is invoked.
C1_PostOrder ==
  \A p \in 1..Len(log) :
    (Invoked(log[p]) /\ IsDidMount(log[p])) =>
      \A i \in 1..Len(lifecycle) :
        (IsDidMount(lifecycle[i])
         /\ IsDescendant(lifecycle[i].iv, log[p].iv)) =>
          \E q \in 1..(p - 1) :
            /\ Invoked(log[q])
            /\ log[q].cb = lifecycle[i].cb
            /\ log[q].iv = lifecycle[i].iv

\* A component two levels below another one, both with a didMount callback
\* that has been invoked.
C1_Witness ==
  /\ Flushed
  /\ \E p, q \in 1..Len(log) :
       /\ Invoked(log[p]) /\ IsDidMount(log[p])
       /\ Invoked(log[q]) /\ IsDidMount(log[q])
       /\ IsDescendant(log[q].iv, log[p].iv)
       /\ ParentIV(log[q].iv) # log[p].iv
       /\ q < p

\* C2: for every functional component with a ref object, the call of
\* onComponentWillMount precedes the insertion into the document of every
\* DOM node of the component's rendered subtree, and onComponentDidMount is
\* invoked after all of them.  (A node enters the document when it, or the
\* detached element that holds it, is inserted into a node of the document.)
C2_HooksAroundInsertion ==
  \A p, q \in 1..Len(log) :
    (/\ log[q].ev = "insert"
     /\ log[q].parent \in DocumentNodes
     /\ IsDescendant(owner[log[q].node], log[p].iv)) =>
      /\ (log[p].ev = "call" /\ log[p].cb = "onComponentWillMount") => p < q
      /\ (Invoked(log[p]) /\ log[p].cb = "onComponentDidMount") => q < p

\* C3: a portal whose target container is not its logical parent has every
\* DOM node of its content in the target container (or in an element of the
\* content) and none in the logical parent; the logical parent holds exactly
\* one node of the portal, an empty text node, before the anchor.
C3_Portal ==
  Mounted =>
    \A p \in 1..Len(log) :
      log[p].ev = "mountPortal" =>
        LET y == log[p].iv
            P == log[p].parent
            A == log[p].node
            T == ivs[y].v.target
            own == {n \in Nodes : owner[n] = y}
        IN  T # P =>
              /\ \A n \in ContentNodes(y) :
                   /\ par[n] # P
                   /\ par[n] = T \/ par[n] \in ContentNodes(y)
              /\ Cardinality(own) = 1
              /\ \A n \in own :
                   /\ kind[n] = "text"
                   /\ text[n] = ""
                   /\ par[n] = P
                   /\ A # 0 =>
                        IndexOf(kids[P], n, 1) < IndexOf(kids[P], A, 1)

\* A mounted portal with content nodes, a logical parent other than its
\* target, and an anchor.
C3_Witness ==
  /\ Mounted
  /\ \E p \in 1..Len(log) :
       /\ log[p].ev = "mountPortal"
       /\ ivs[log[p].iv].v.target # log[p].parent
       /\ log[p].node # 0
       /\ Cardinality(ContentNodes(log[p].iv)) >= 2

\* C4: the IV of a mounted array is flagged HasKeyedChildren exactly when
\* the first valid entry is a VNode with a key, whatever the later entries
\* are, and HasNonKeydChildren when the first valid entry has no key.
C4_FirstValidDecides ==
  Mounted =>
    \A x \in IVs :
      IsArrayIV(x) =>
        LET e == EntriesOf(x)
            valid == ValidIndices(e)
        IN  /\ ivs[x].f = HasKeyedChildren
                <=> (valid # <<>> /\ KeyedVNode(e[valid[1]]))
            /\ (valid # <<>> /\ ~KeyedVNode(e[valid[1]]))
                => ivs[x].f = HasNonKeydChildren

\* A mounted array whose first valid entry has a key and a later valid entry
\* has none.
C4_Witness ==
  /\ Mounted
  /\ \E x \in IVs :
       /\ IsArrayIV(x)
       /\ LET e == EntriesOf(x)
              valid == ValidIndices(e)
          IN  /\ Len(valid) >= 2
              /\ KeyedVNode(e[valid[1]])
              /\ ~KeyedVNode(e[valid[2]])

\* C5: no child IV and no DOM node is made for a null, undefined or boolean
\* entry; a mounted array has one child IV per valid entry, in order, and an
\* array with no valid entry has children null, HasInvalidChildren and
\* creates and inserts nothing.
C5_InvalidEntriesSkipped ==
  /\ \A x \in IVs : IsArrayIV(x) => \A c \in ChildIVs(x) : ~Sentinel(ivs[c].v)
  /\ \A n \in Nodes : owner[n] # 0 => ~Sentinel(ivs[owner[n]].v)
  /\ Mounted =>
       \A x \in IVs :
         IsArrayIV(x) =>
           LET e == EntriesOf(x)
               valid == ValidIndices(e)
               c == ivs[x].c
           IN  /\ Len(c.ivs) = Len(valid)
               /\ \A i \in 1..Len(valid) :
                    /\ ivs[c.ivs[i]].v = e[valid[i]]
                    /\ ivs[c.ivs[i]].k = valid[i] - 1
               /\ valid = <<>> =>
                    /\ c = NoChildren
                    /\ ivs[x].f = HasInvalidChildren
                    /\ ivs[x].v.kind = "array" =>
                         /\ \A n \in Nodes : owner[n] # x
                         /\ \A p \in 1..Len(log) : log[p].iv # x
                    /\ (x = RootIV /\ ivs[x].v.kind = "array") =>
                         /\ Len(kind) = 4
                         /\ kids[ParentDOM] = <<Anchor>>
                         /\ \A p \in 1..Len(log) : log[p].ev # "insert"

\* A mounted array with a boolean entry before its only valid entry, which
\* is an array of sentinels only.
C5_Witness ==
  /\ Mounted
  /\ \E x, y \in IVs :
       /\ ivs[x].v.kind = "array"
       /\ Len(EntriesOf(x)) = 2
       /\ EntriesOf(x)[1].kind = "bool"
       /\ ivs[x].c.ivs = <<y>>
       /\ ivs[y].v.kind = "array"
       /\ EntriesOf(y) # <<>>
       /\ ValidIndices(EntriesOf(y)) = <<>>

\* C6: during mount the lifecycle queue only grows at its end (it is the
\* queue mount was handed, followed by the callbacks pushed, in order), and
\* no queued callback runs before mount has returned: every invocation
\* comes after the last insertion and the last push.
C6_QueueAppendOnly ==
  /\ lifecycle = pre \o Pushed(log)
  /\ \A p, q \in 1..Len(log) :
       (p < q /\ Invoked(log[p])) => Invoked(log[q])
  /\ (\E p \in 1..Len(log) : Invoked(log[p])) => Mounted

\* A mount that was handed a non-empty queue, pushed two callbacks and
\* inserted a node after a push.
C6_Witness ==
  /\ Flushed
  /\ pre # <<>>
  /\ Len(lifecycle) >= Len(pre) + 2
  /\ \E p, q \in 1..Len(log) :
       p < q /\ log[p].ev = "push" /\ log[q].ev = "insert"

\* C7 as claimed: once mount has returned, the callback ref of every mounted
\* element has run, at a point after the element's children were mounted
\* and before the element was inserted.
C7_RefInvokedDuringMount ==
  (Mounted /\ flushed = 0) =>
    \A x \in RefElements :
      \E p \in RefRuns(x) :
        \A n \in NodesOf(x) : AfterChildrenBeforeInsert(p, x, n)

\* C7 as amended: during the element's mount, after its children were
\* mounted and before it is inserted, one callback holding the element's
\* DOM node is pushed on the lifecycle queue; the ref does not run during
\* mount, only when the queue is flushed after every insertion and push.
C7_RefQueuedDuringMount ==
  Mounted =>
    \A x \in RefElements :
      /\ Cardinality(RefPushes(x)) = 1
      /\ Cardinality(NodesOf(x)) = 1
      /\ \A p \in RefPushes(x) :
           /\ log[p].node \in NodesOf(x)
           /\ kind[log[p].node] = "element"
           /\ AfterChildrenBeforeInsert(p, x, log[p].node)
      /\ \A r \in RefRuns(x) :
           /\ log[r].ev = "invoke"
           /\ log[r].node \in NodesOf(x)
           /\ \A q \in 1..Len(log) :
                log[q].ev \in {"insert", "push", "call"} => q < r

\* An inserted element with a callback ref and a mounted child, whose ref
\* has been run by the flush.
C7_Witness ==
  /\ Flushed
  /\ \E x \in RefElements :
       /\ RefRuns(x) # {}
       /\ \E q \in 1..Len(log) :
            log[q].ev = "insert" /\ IsDescendant(log[q].iv, x)
       /\ \E q \in 1..Len(log) :
            log[q].ev = "insert" /\ log[q].node \in NodesOf(x)

\* C8: after mount, the IV of an array that is portal content or a
\* component's render output is an IsVirtualArray whose dom is the dom of
\* its first child IV, or null when no entry was valid.
C8_VirtualArrayDom ==
  Mounted =>
    \A x \in IVs :
      (/\ ivs[x].v.kind = "array"
       /\ ParentIV(x) # 0
       /\ ivs[ParentIV(x)].v.kind \in {"portal", "class", "func"}) =>
        /\ ivs[x].t = IsVirtualArray
        /\ ivs[x].d = IF ivs[x].c.ivs # <<>>
                      THEN ivs[ivs[x].c.ivs[1]].d
                      ELSE 0

\* C9: a mounted class component whose render returned an invalid value has
\* HasInvalidChildren, no child IV and dom null, has inserted nothing, and
\* its didMount callback is on the queue once and runs in the flush.
C9_ClassRendersNull ==
  Mounted =>
    \A x \in IVs :
      (ivs[x].v.kind = "class" /\ Sentinel(ivs[x].v.kids[1])) =>
        /\ ivs[x].f = HasInvalidChildren
        /\ ivs[x].c = NoChildren
        /\ ivs[x].d = 0
        /\ \A p \in 1..Len(log) : log[p].ev = "insert" => log[p].iv # x
        /\ ivs[x].v.did =>
             /\ Cardinality({i \in 1..Len(lifecycle) :
                               lifecycle[i] =
                                 Callback("componentDidMount", x, 0)}) = 1
             /\ Flushed =>
                  \E p \in 1..Len(log) :
                    /\ Invoked(log[p])
                    /\ log[p].cb = "componentDidMount"
                    /\ log[p].iv = x

\* A class component with componentDidMount that rendered null, after the
\* flush.
C9_Witness ==
  /\ Flushed
  /\ \E x \in IVs :
       /\ ivs[x].v.kind = "class"
       /\ ivs[x].v.kids[1].kind = "null"
       /\ ivs[x].v.did

\* C10: a mounted element whose children are null, undefined or boolean has
\* HasInvalidChildren, no child IV, and a DOM element without child nodes
\* and without text.
C10_ElementWithoutChildren ==
  Mounted =>
    \A x \in IVs :
      (ivs[x].v.kind = "element" /\ Sentinel(ivs[x].v.kids[1])) =>
        /\ ivs[x].f = HasInvalidChildren
        /\ ivs[x].c = NoChildren
        /\ Cardinality(NodesOf(x)) = 1
        /\ \A n \in NodesOf(x) :
             kind[n] = "element" /\ kids[n] = <<>> /\ text[n] = ""

\* A mounted element with boolean children inside another element.
C10_Witness ==
  /\ Mounted
  /\ \E x \in IVs :
       /\ ivs[x].v.kind = "element"
       /\ ivs[x].v.kids[1].kind = "bool"
       /\ \A n \in NodesOf(x) : par[n] # 0 /\ owner[par[n]] # 0

\* C11: a mounted element whose children are a string or a number has that
\* primitive as the text content of its DOM element, which has no child
\* node; its IV has HasTextChildren and children null, and no IV was created
\* for the primitive.
C11_ElementWithText ==
  Mounted =>
    \A x \in IVs :
      (ivs[x].v.kind = "element" /\ ivs[x].v.kids[1].kind = "text") =>
        /\ ivs[x].f = HasTextChildren
        /\ ivs[x].c = NoChildren
        /\ \A y \in IVs : ParentIV(y) # x
        /\ Cardinality(NodesOf(x)) = 1
        /\ \A n \in NodesOf(x) :
             /\ kind[n] = "element"
             /\ text[n] = ivs[x].v.kids[1].text
             /\ kids[n] = <<>>
             /\ \A k \in Nodes : par[k] # n

\* A mounted element with text children that is the render output of a
\* component.
C11_Witness ==
  /\ Mounted
  /\ \E x \in IVs :
       /\ ivs[x].v.kind = "element"
       /\ ivs[x].v.kids[1].kind = "text"
       /\ ivs[x].b # 0
       /\ \A n \in NodesOf(x) : text[n] = "a" /\ par[n] = ParentDOM

\* The step of the second mount, the IVs and DOM nodes that exist before it
\* and those it makes.
SecondMount == pc \in {"mounted", "mountedElsewhere"} /\ pc' # pc
OldNodes == 1..Len(kind)
NewIVs == (Len(ivs) + 1)..Len(ivs')
NewNodes == (Len(kind) + 1)..Len(kind')

\* DOM node n lies below node P.
RECURSIVE Under(_, _)
Under(n, P) == par[n] # 0 /\ (par[n] = P \/ Under(par[n], P))

\* The target containers of the portals of value v.
RECURSIVE PortalTargets(_)
PortalTargets(v) ==
  (IF v.kind = "portal" THEN {v.target} ELSE {})
  \cup UNION {PortalTargets(v.kids[i]) : i \in 1..Len(v.kids)}

\* The second mount builds its IV tree from IVs of its own and its DOM from
\* nodes of its own: no IV and no node of the first mount is referred to
\* by the second tree, moved, or given a new child list member it had not.
NoSharing ==
  /\ Len(ivs') > Len(ivs)
  /\ \A y \in NewIVs :
       /\ \A c \in Range(ivs'[y].c.ivs) : c \in NewIVs
       /\ ivs'[y].b \in NewIVs \cup {0}
       /\ ivs'[y].d \in NewNodes \cup {0}
  /\ \A n \in NewNodes :
       /\ owner'[n] \in NewIVs
       /\ \A k \in Range(kids'[n]) : k \in NewNodes
  /\ \A n \in OldNodes :
       /\ kind'[n] = kind[n]
       /\ owner'[n] = owner[n]
       /\ par'[n] = par[n]
       /\ SelectSeq(kids'[n], LAMBDA k : k \in OldNodes) = kids[n]

FirstIVTreeKept == \A x \in IVs : ivs'[x] = ivs[x]

\* C12 as claimed: the second mount of a View Node, into another parent
\* with a fresh IV, shares no IV and no DOM node with the first, and
\* changes nothing in the first IV tree nor in the DOM of the first parent.
C12_SecondMountLeavesFirstParent ==
  [][SecondMount =>
       /\ NoSharing
       /\ FirstIVTreeKept
       /\ \A n \in OldNodes :
            (n = FirstParent \/ Under(n, FirstParent)) =>
              kids'[n] = kids[n] /\ text'[n] = text[n]]_vars

\* C12 as amended: the second mount shares no IV and no DOM node with the
\* first and changes nothing in the first IV tree; in the DOM that existed
\* before it, it changes no text and adds nodes only to its own parent and
\* to the target containers of the View Node's portals (also when such a
\* container is the first parent or lies in it).
C12_IndependentTrees ==
  [][SecondMount =>
       /\ NoSharing
       /\ FirstIVTreeKept
       /\ \A n \in OldNodes :
            /\ text'[n] = text[n]
            /\ n \notin ({SecondParent} \cup PortalTargets(input)) =>
                 kids'[n] = kids[n]]_vars

\* A View Node with a portal into the first parent has been mounted twice:
\* the first parent holds nodes of both mounts, and both mounts made IVs
\* and nodes.
C12_Witness ==
  /\ pc = "twiceElsewhere"
  /\ OtherContainer \in PortalTargets(input)
  /\ \E x, y \in IVs :
       /\ x # y
       /\ ParentIV(x) = 0 /\ ParentIV(y) = 0
       /\ \E n, k \in Range(kids[OtherContainer]) :
            /\ owner[n] # 0 /\ owner[k] # 0
            /\ IsDescendant(owner[n], x)
            /\ IsDescendant(owner[k], y)

\* The DOM node the mounter of IV x created for x itself (0: none).
OwnNode(x) == IF NodesOf(x) = {} THEN 0 ELSE CHOOSE n \in NodesOf(x) : TRUE

\* What the claim has mount return for the input of IV x: the node mounted
\* for a primitive or an element, that of the render output for a
\* component, null for a portal and for an array.
RECURSIVE ReturnedAsClaimed(_)
ReturnedAsClaimed(x) ==
  IF ivs[x].v.kind \in {"text", "element"} THEN OwnNode(x)
  ELSE IF ivs[x].v.kind \in {"class", "func"}
  THEN IF ivs[x].c = NoChildren THEN 0
       ELSE ReturnedAsClaimed(ivs[x].c.ivs[1])
  ELSE 0

\* The same with the placeholder text node for a portal.
RECURSIVE Returned(_)
Returned(x) ==
  IF ivs[x].v.kind \in {"text", "element", "portal"} THEN OwnNode(x)
  ELSE IF ivs[x].v.kind \in {"class", "func"}
  THEN IF ivs[x].c = NoChildren THEN 0 ELSE Returned(ivs[x].c.ivs[1])
  ELSE 0

\* The IVs of render outputs: mount handed its result to the component
\* mounter, which stored it in the dom field of the IV.
RenderOutputs == {x \in IVs : ivs[x].b # 0}

\* C13 as claimed: mount returns the DOM node it mounted for a primitive, an
\* element and a component, and null for a portal and for input without a
\* DOM node of its own.
C13_ReturnsNullForPortal ==
  Mounted =>
    /\ ret = ReturnedAsClaimed(RootIV)
    /\ \A x \in RenderOutputs :
         ivs[x].v.kind # "array" => ivs[x].d = ReturnedAsClaimed(x)

\* C13 as amended: mount returns the DOM node it created for a primitive
\* and for an element, the empty placeholder text node for a portal, null
\* for an array, and for a component what the mount of its render output
\* returned (null when the render output is invalid or an array).
C13_ReturnsPlaceholderForPortal ==
  Mounted =>
    /\ ret = Returned(RootIV)
    /\ \A x \in RenderOutputs : ivs[x].d = Returned(x)
    /\ \A x \in IVs :
         /\ Cardinality(NodesOf(x)) <= 1
         /\ ivs[x].v.kind \in {"text", "element", "portal"} =>
              /\ OwnNode(x) # 0
              /\ kind[OwnNode(x)] =
                   IF ivs[x].v.kind = "element" THEN "element" ELSE "text"
              /\ ivs[x].v.kind = "portal" => text[OwnNode(x)] = ""

\* mount has returned the placeholder of a portal that a component rendered
\* into a container.
C13_Witness ==
  /\ Mounted
  /\ ivs[RootIV].v.kind \in {"class", "func"}
  /\ ivs[RootIV].v.kids[1].kind = "portal"
  /\ ret # 0
  /\ kind[ret] = "text"
  /\ par[ret] = ParentDOM

\* The elements with a ref of the given kind whose mounter has created the
\* DOM element.
StartedElements(r) ==
  {x \in IVs : /\ ivs[x].v.kind = "element"
               /\ ivs[x].v.ref = r
               /\ NodesOf(x) # {}}

\* No callback is on the queue for the ref of element x.
NoRefQueued(x) ==
  /\ RefPushes(x) = {}
  /\ \A i \in 1..Len(lifecycle) :
       ~(lifecycle[i].cb = "ref" /\ lifecycle[i].iv = x)

\* C14 as claimed: the mount of an element whose ref is a string, a number,
\* a plain object or a boolean does not complete: mount throws, and no
\* callback is queued for the ref.
C14_NonCallbackRefThrows ==
  \A x \in StartedElements("string") \cup StartedElements("bool") :
    /\ pc = "thrown"
    /\ NoRefQueued(x)

\* C14 as amended: the mount of an element whose ref is a string, a number
\* or a plain object throws, leaves the element uninserted and queues
\* nothing for the ref; a boolean ref is ignored: nothing is queued for it
\* and the element is mounted as one without ref.
C14_NonCallbackRefThrowsUnlessBoolean ==
  /\ \A x \in StartedElements("string") :
       /\ pc = "thrown"
       /\ NoRefQueued(x)
       /\ \A n \in NodesOf(x) : par[n] = 0
  /\ \A x \in StartedElements("bool") :
       /\ NoRefQueued(x)
       /\ Mounted =>
            \A n \in NodesOf(x) :
              /\ ivs[x].b = 0 => ivs[x].d = n
              /\ Cardinality({p \in 1..Len(log) :
                                log[p].ev = "insert" /\ log[p].node = n}) = 1

\* The mount of an element with a string ref has thrown after the children
\* of the element were mounted and their ref was queued.
C14_Witness ==
  /\ pc = "thrown"
  /\ \E x \in StartedElements("string") :
       /\ \E n \in NodesOf(x) : kids[n] # <<>>
       /\ \E i \in 1..Len(lifecycle) :
            lifecycle[i].cb = "ref" /\ IsDescendant(lifecycle[i].iv, x)

\* The IVs mount was called with whose input is neither a primitive, a
\* VNode nor an array.  (Every IV but that of an element's VNode child is
\* handed to mount right after its creation.)
InvalidInputIVs ==
  {x \in IVs : /\ pc # "ready"
               /\ ivs[x].v.kind \in {"null", "bool", "object"}}

\* An IV as createIV made it.
Untouched(x) ==
  /\ ivs[x].d = 0
  /\ ivs[x].w = <<>>
  /\ ivs[x].c = NoChildren
  /\ ivs[x].f = "None"
  /\ ivs[x].t = Regular
  /\ ivs[x].b = IF ParentIV(x) # 0 /\ ivs[ParentIV(x)].v.kind \in {"class", "func"}
                THEN ParentIV(x) ELSE 0

\* C15: in a development build, mount called with an input that is neither a
\* primitive, a VNode nor an array throws before the array mounter runs:
\* the IV it was handed is as it was created, nothing was created, inserted
\* or queued for it, and it is the last thing the whole mount did; at top
\* level the IV, the DOM and the lifecycle queue are those of the caller.
C15_InvalidInputThrows ==
  \A x \in InvalidInputIVs :
    /\ pc = "thrown"
    /\ Untouched(x)
    /\ x = Len(ivs)
    /\ NodesOf(x) = {}
    /\ \A p \in 1..Len(log) : log[p].iv # x
    /\ x = RootIV =>
         /\ Len(ivs) = 1
         /\ Len(kind) = 4
         /\ kids = <<(<<Anchor>>), <<>>, <<>>, <<>>>>
         /\ par = <<0, 0, ParentDOM, 0>>
         /\ text = <<"", "", "", "">>
         /\ lifecycle = pre
         /\ log = <<>>

\* mount was called with a plain object at top level, with a queue that
\* holds a callback and a parent that has a child.
C15_Witness ==
  /\ pc = "thrown"
  /\ input.kind = "object"
  /\ pre # <<>>
  /\ kids[ParentDOM] = <<Anchor>>

\* The IVs whose children field is a sequence of child IVs.
SequenceIVs == {x \in IVs : ivs[x].c.shape = "array"}

\* The parent DOM node the mounter of IV x was handed.
RECURSIVE PassedParent(_)
PassedParent(x) ==
  LET p == ParentIV(x)
  IN  IF p = 0 THEN ParentDOM
      ELSE IF ivs[p].v.kind = "element" THEN OwnNode(p)
      ELSE IF ivs[p].v.kind = "portal" THEN ivs[p].v.target
      ELSE PassedParent(p)

\* The parent DOM node the entries of sequence IV x are mounted into.
SequenceParent(x) ==
  IF ivs[x].v.kind = "element" THEN OwnNode(x) ELSE PassedParent(x)

\* The DOM nodes the value of IV x stands for in the parent it is mounted
\* into: its element or text node, the placeholder of a portal, the nodes of
\* a component's render output, the nodes of the entries of an array.
RECURSIVE TopNodes(_)
TopNodes(x) ==
  IF ivs[x].v.kind \in {"text", "element", "portal"} THEN NodesOf(x)
  ELSE UNION {TopNodes(c) : c \in ChildIVs(x)}

Position(n) == IndexOf(kids[par[n]], n, 1)

\* C16: the DOM nodes of the valid entries of a mounted sequence of
\* children are in the parent the sequence was mounted into, in the order of
\* the entries (also for a component, a nested array and the placeholder of
\* a portal); the nodes mounted at an anchor are before the anchor; each
\* child IV carries the index of its entry in the sequence, invalid entries
\* counted.
C16_EntriesInOrder ==
  Mounted =>
    /\ \A x \in SequenceIVs :
         LET c == ivs[x].c.ivs
         IN  /\ \A i \in 1..Len(c) :
                  /\ \A n \in TopNodes(c[i]) : par[n] = SequenceParent(x)
                  /\ ivs[c[i]].k = ValidIndices(EntriesOf(x))[i] - 1
                  /\ EntriesOf(x)[ivs[c[i]].k + 1] = ivs[c[i]].v
             /\ \A i, j \in 1..Len(c) :
                  i < j =>
                    \A n \in TopNodes(c[i]), k \in TopNodes(c[j]) :
                      Position(n) < Position(k)
    /\ \A n \in TopNodes(RootIV) :
         /\ par[n] = ParentDOM
         /\ IF nextNode = Anchor THEN Position(n) < Position(Anchor)
            ELSE Position(Anchor) < Position(n)

\* A sequence mounted at the anchor whose entries are a component that
\* rendered a DOM node and a text.
C16_Witness ==
  /\ Mounted
  /\ nextNode = Anchor
  /\ ivs[RootIV].v.kind = "array"
  /\ Len(ivs[RootIV].c.ivs) = 2
  /\ ivs[ivs[RootIV].c.ivs[1]].v.kind \in {"class", "func"}
  /\ TopNodes(ivs[RootIV].c.ivs[1]) # {}
  /\ ivs[ivs[RootIV].c.ivs[2]].v.kind = "text"
  /\ ivs[ivs[RootIV].c.ivs[2]].k = 1

\* The children field of IV x has the shape its flag stands for.
ShapeAsFlagged(x) ==
  /\ ivs[x].f \in {HasInvalidChildren, HasTextChildren, HasBasicChildren,
                   HasKeyedChildren, HasNonKeydChildren}
  /\ ivs[x].f \in {HasInvalidChildren, HasTextChildren} =>
       ivs[x].c = NoChildren
  /\ ivs[x].f = HasBasicChildren =>
       ivs[x].c.shape = "single" /\ Len(ivs[x].c.ivs) = 1
  /\ ivs[x].f \in {HasKeyedChildren, HasNonKeydChildren} =>
       ivs[x].c.shape = "array" /\ Len(ivs[x].c.ivs) >= 1

\* C17: after mount has returned, every IV of the tree has one of the five
\* shape flags, and its children field is null for HasInvalidChildren and
\* HasTextChildren, one child IV for HasBasicChildren, and a non-empty
\* sequence of child IVs for HasKeyedChildren and HasNonKeydChildren,
\* whatever the kind of its value, portals included.
C17_FlagDictatesShape == Mounted => \A x \in IVs : ShapeAsFlagged(x)

\* The DOM nodes the mounters have created, and the insertion calls made
\* for node n.
CreatedNodes == {n \in Nodes : owner[n] # 0}
Inserts(n) == {p \in 1..Len(log) : log[p].ev = "insert" /\ log[p].node = n}

\* The IV whose mounter inserts the node created for IV x: x itself, or, for
\* a render output (mounted without insertion), the component it belongs to.
RECURSIVE Inserter(_)
Inserter(x) == IF ivs[x].b = 0 THEN x ELSE Inserter(ivs[x].b)

\* C18: no DOM node is handed to an insertion call twice; when the top-level
\* mount (insertIntoDOM = true) has returned, every element, text node and
\* placeholder the mounters created has been inserted by exactly one call
\* and has a parent; the call is made by the mounter that created the node
\* or, for the root of a component's render output, by the component
\* mounter.
C18_InsertedOnce ==
  /\ \A n \in CreatedNodes : Cardinality(Inserts(n)) <= 1
  /\ \A n \in DocumentNodes : Inserts(n) = {}
  /\ Mounted =>
       \A n \in CreatedNodes :
         /\ Cardinality(Inserts(n)) = 1
         /\ par[n] # 0
         /\ n \in Range(kids[par[n]])
         /\ \A p \in Inserts(n) :
              /\ log[p].iv = Inserter(owner[n])
              /\ log[p].parent = par[n]

\* The element rendered by a component that another component rendered has
\* been inserted by the outer component.
C18_Witness ==
  /\ Mounted
  /\ \E n \in CreatedNodes :
       /\ kind[n] = "element"
       /\ ivs[owner[n]].b # 0
       /\ ivs[ivs[owner[n]].b].b # 0
       /\ \E p \in Inserts(n) : log[p].iv = ivs[ivs[owner[n]].b].b

\* The IVs whose mounters have assigned the dom field of IV x.
DomWriters(x) == Range(ivs[x].w)

\* C19 as claimed: the dom field of an IV is assigned only by the mounter
\* that was invoked on that IV.
C19_OnlyOwnMounterWritesDom ==
  \A x \in IVs : \A y \in DomWriters(x) : y = x

\* C19 as amended: the dom field of an IV is assigned by the mounter invoked
\* on that IV and, when the IV is that of a component's render output, by
\* the mounter of that component, which assigns it once, after the mount of
\* the render output has returned (and so last); the element, array and
\* portal mounters assign the dom field of no child IV.
C19_OwnMounterOrComponentWritesDom ==
  /\ \A x \in IVs :
       \A y \in DomWriters(x) :
         \/ y = x
         \/ /\ y = ivs[x].b
            /\ ivs[y].v.kind \in {"class", "func"}
            /\ ivs[y].c = OneChild(x)
  /\ Mounted =>
       \A x \in IVs :
         IF ivs[x].b = 0 THEN ivs[x].w \in {<<>>, <<x>>}
         ELSE ivs[x].w \in {<<ivs[x].b>>, <<x, ivs[x].b>>}

\* A component has assigned the dom of the IV of the element it rendered,
\* which the element mounter had left null, and then its own dom.
C19_Witness ==
  /\ Mounted
  /\ \E x \in IVs :
       /\ ivs[x].v.kind = "element"
       /\ ivs[x].b # 0
       /\ ivs[x].w = <<ivs[x].b>>
       /\ ivs[x].d # 0
       /\ ivs[ivs[x].b].w = <<ivs[x].b>>

\* The IVs whose mounter raises: mount was handed a value that is no
\* primitive, VNode or array; the render step of the component raises; the
\* element has a string ref (its mounter raises at the ref at the latest).
FaultyIVs ==
  {x \in IVs :
     /\ pc # "ready"
     /\ \/ ivs[x].v.kind \in {"null", "bool", "object"}
        \/ ivs[x].v.kind \in {"class", "func"} /\ ivs[x].v.kids[1] = Raises
        \/ ivs[x].v.kind = "element" /\ ivs[x].v.ref = "string"}

\* C20: a fault raised by a render step or any other step leaves the
\* top-level mount as a fault: nothing is mounted after it (every IV made
\* after the faulty one is below it), the nodes inserted before it are where
\* they were inserted, the callbacks queued before it (and those the caller
\* had queued) are on the queue, and none has been invoked.
C20_FaultPropagates ==
  /\ \A x \in FaultyIVs :
       /\ pc = "thrown"
       /\ \A y \in IVs : y > x => IsDescendant(y, x)
  /\ Mounted => ~thrown
  /\ pc = "thrown" =>
       /\ thrown
       /\ FaultyIVs # {}
       /\ \A p \in 1..Len(log) :
            /\ ~Invoked(log[p])
            /\ log[p].ev # "call" \/ log[p].cb = "onComponentWillMount"
            /\ log[p].ev = "insert" =>
                 /\ par[log[p].node] = log[p].parent
                 /\ log[p].node \in Range(kids[log[p].parent])
       /\ lifecycle = pre \o Pushed(log)
       /\ flushed = 0

\* The render step of a component has raised after a node was inserted
\* before the anchor, with a callback on the queue.
C20_Witness ==
  /\ pc = "thrown"
  /\ \E x \in FaultyIVs : ivs[x].v.kids = <<Raises>>
  /\ lifecycle # <<>>
  /\ \E p \in 1..Len(log) :
       /\ log[p].ev = "insert"
       /\ Position(log[p].node) < Position(Anchor)

\* The IVs created for the render output of a component.
RenderOutputIVs ==
  {x \in IVs : /\ ParentIV(x) # 0
               /\ ivs[ParentIV(x)].v.kind \in {"class", "func"}}

\* C21: after mount has returned, an IV has a back-reference exactly when it
\* is the child IV of a component's render output; the back-reference is
\* then that component's IV, whose children field is this IV alone.  The
\* IVs of element children, array entries and portal content, and the root
\* IV, have none.
C21_BackReference ==
  Mounted =>
    \A x \in IVs :
      /\ ivs[x].b # 0 <=> x \in RenderOutputIVs
      /\ x \in RenderOutputIVs =>
           /\ ivs[x].b = ParentIV(x)
           /\ ivs[ivs[x].b].c = OneChild(x)
           /\ ivs[ivs[x].b].f = HasBasicChildren
      /\ (ParentIV(x) = 0
          \/ ivs[ParentIV(x)].v.kind \in {"element", "array", "portal"}) =>
           ivs[x].b = 0

\* A mounted tree with the render output of a component, whose own child IV
\* has no back-reference, inside a portal.
C21_Witness ==
  /\ Mounted
  /\ \E x, y, z \in IVs :
       /\ ivs[z].v.kind = "portal"
       /\ ParentIV(y) = z /\ ivs[y].b = 0
       /\ ivs[y].v.kind \in {"class", "func"}
       /\ ParentIV(x) = y /\ ivs[x].b = y
       /\ \E c \in ChildIVs(x) : ivs[c].b = 0

\* The nodes handed to pool() with map into, type t and a key for which
\* test holds, in call order.
PooledInto(into, t, test(_)) ==
  LET sel == SelectSeq(pooled, LAMBDA c : /\ c.into = into
                                          /\ c.vNode.type = t
                                          /\ test(c.vNode.key))
  IN  [i \in 1..Len(sel) |-> sel[i].vNode]

\* Map tagPools holds what the calls of pool() with it put there, and
\* nothing else: a pool per type pooled, whose non-keyed sequence is the
\* nodes pooled with key null and whose keyed map has, for every other key
\* pooled, the nodes pooled with that key, each in call order.
HoldsThePooled(tagPools, into) ==
  /\ DOMAIN tagPools =
       {c.vNode.type : c \in {d \in Range(pooled) : d.into = into}}
  /\ \A t \in DOMAIN tagPools :
       /\ tagPools[t].nonKeyed = PooledInto(into, t, LAMBDA k : k = "null")
       /\ DOMAIN tagPools[t].keyed =
            {c.vNode.key : c \in {d \in Range(pooled) :
                                    /\ d.into = into
                                    /\ d.vNode.type = t
                                    /\ d.vNode.key # "null"}}
       /\ \A key \in DOMAIN tagPools[t].keyed :
            tagPools[t].keyed[key] = PooledInto(into, t, LAMBDA k : k = key)

\* C22: after any calls of pool, recycleElement and recycleComponent, each
\* map holds every node once per call of pool() with it, in the pool of the
\* node's type, in the non-keyed sequence when the key is null and
\* otherwise in the keyed sequence of the key, in call order: nothing is
\* removed or reordered; recycleElement and recycleComponent have returned
\* null.
C22_PoolsAppendOnly ==
  /\ HoldsThePooled(elementPools, "elementPools")
  /\ HoldsThePooled(componentPools, "componentPools")
  /\ ret = 0

\* One node has been pooled twice with key null, and a node of its type
\* whose key is undefined has been pooled.
C22_Witness ==
  /\ Len(pooled) = 3
  /\ \E t \in DOMAIN elementPools :
       /\ Len(elementPools[t].nonKeyed) = 2
       /\ elementPools[t].nonKeyed[1] = elementPools[t].nonKeyed[2]
       /\ "undefined" \in DOMAIN elementPools[t].keyed
====
